---- MODULE Spec2Model ----
(***************************************************************************)
(* Model of github.com/visvasity/kv: the Reader/Writer/Transaction/        *)
(* Snapshot/Database contract (package kv) and the helpers built on it in  *)
(* package kvutil: WithReader, WithReadWriter, Backup, ValidateBackup,     *)
(* Restore and Clear.                                                      *)
(*                                                                         *)
(* Keys and values are byte strings, modelled as sequences of naturals.    *)
(* A store is a function from the set of keys it holds to their values.    *)
(* One call of one helper runs at a time (the variable op); every backend  *)
(* call that can fail fails nondeterministically.                          *)
(***************************************************************************)
EXTENDS Integers, Sequences, FiniteSets, TLC

VARIABLES
  op,      \* the call in progress: [name, db, maxPerTx]
  pc,      \* position inside the call
  store,   \* store[d]: committed content of database d
  tx,      \* the transaction the call holds (state "none" before the first)
  snap,    \* the snapshot the call holds
  stream,  \* the gob messages of the io.Reader handed to Restore
  pos,     \* number of messages the gob decoder has consumed
  sink,    \* the gob messages written to Backup's io.Writer
  cursor,  \* last key yielded by the Ascend iterator in progress
  n,       \* loop counter of the chunk (n of Clear, i of Restore)
  done,    \* the done flag of Restore's and Clear's outer loop
  result,  \* "running", or what the call returned ("nil" or an error)
  hist,    \* backend calls made so far, in order: <<call, outcome>>
  chunks,  \* per successful Commit, the writes it applied, in order
  pre,     \* store as it was when the call started
  peers,   \* peers[p]: the transaction of concurrent client p
  reader,  \* the snapshot of a concurrent reader
  pr       \* a call of PrefixRange: its argument, a probe key, its results

vars == <<op, pc, store, tx, snap, stream, pos, sink, cursor, n, done,
          result, hist, chunks, pre, peers, reader, pr>>

---------------------------------------------------------------------------
(* Bounds of the model. *)
MaxRecs == 3      \* longest stream handed to Restore, in records
MaxChunk == 2     \* largest positive maxPerTx tried
MaxWorkOps == 2   \* most writes a work function issues

(* math.MaxInt64, which maxPerTx == 0 is replaced with.  TLC's integers are
   32 bits wide, so the model uses the largest of those; the only use is the
   comparison with a chunk counter, which never exceeds the store or stream
   size. *)
MaxInt64 == 2147483647

Keys == {<<1>>, <<1, 2>>, <<2>>}
Vals == {<<>>, <<2>>}
EmptyKey == <<>>
DBs == {1, 2}

EmptyStore == [k \in {} |-> <<>>]

(* Lexical order of byte strings (Go's string comparison). *)
RECURSIVE KeyLess(_, _)
KeyLess(a, b) ==
  IF b = <<>> THEN FALSE
  ELSE IF a = <<>> THEN TRUE
  ELSE IF a[1] # b[1] THEN a[1] < b[1]
  ELSE KeyLess(Tail(a), Tail(b))

Put(s, k, v) == [x \in (DOMAIN s) \cup {k} |-> IF x = k THEN v ELSE s[x]]
Del(s, k) == [x \in (DOMAIN s) \ {k} |-> s[x]]

---------------------------------------------------------------------------
(* The backend contract of package kv. *)

NoTx == [state |-> "none", db |-> 1, base |-> EmptyStore, view |-> EmptyStore,
         writes |-> <<>>, reads |-> {}, since |-> 0]

(* Database.NewTransaction: an open transaction over the committed state.
   reads is the set of keys it has read, since the number of transactions
   committed before it started. *)
NewTransaction(d) ==
  [state |-> "open", db |-> d, base |-> store[d], view |-> store[d],
   writes |-> <<>>, reads |-> {}, since |-> Len(chunks)]

(* Setter.Set: os.ErrInvalid for the empty key, else create or update. *)
SetErr(t, k) == IF k = EmptyKey THEN "ErrInvalid" ELSE "nil"
(* Variant: a key already written in the transaction keeps its first value. *)
SetTxKeepFirst(t, k, v) ==
  IF \E i \in DOMAIN t.writes : t.writes[i][2] = k
    THEN t
    ELSE [t EXCEPT !.view = Put(t.view, k, v),
                   !.writes = Append(t.writes, <<"set", k, v>>)]
SetTx(t, k, v) ==
  [t EXCEPT !.view = Put(t.view, k, v),
            !.writes = Append(t.writes, <<"set", k, v>>)]

(* Deleter.Delete: os.ErrInvalid for the empty key, os.ErrNotExist for a key
   the transaction does not see. *)
DeleteErr(t, k) ==
  IF k = EmptyKey THEN "ErrInvalid"
  ELSE IF k \notin DOMAIN t.view THEN "ErrNotExist"
  ELSE "nil"
(* Variant: the Delete is not kept among the transaction's writes. *)
DeleteTxForgets(t, k) == [t EXCEPT !.view = Del(t.view, k)]
DeleteTx(t, k) ==
  [t EXCEPT !.view = Del(t.view, k),
            !.writes = Append(t.writes, <<"del", k>>)]

(* The writes of a transaction applied, in order, to a store. *)
RECURSIVE ApplyWrites(_, _)
ApplyWrites(s, ws) ==
  IF ws = <<>> THEN s
  ELSE LET w == Head(ws)
       IN ApplyWrites(IF w[1] = "set" THEN Put(s, w[2], w[3]) ELSE Del(s, w[2]),
                      Tail(ws))

(* The keys a list of writes touches. *)
Touched(ws) == {ws[i][2] : i \in DOMAIN ws}

(* Transaction.Commit "validates all reads and writes for conflicts": a
   transaction committed after this one started has written a key this one
   read or wrote.
   Variant: Commit validates nothing. *)
ConflictNever(t) == FALSE
Conflict(t) ==
  \E i \in (t.since + 1)..Len(chunks) :
    Touched(chunks[i]) \cap (t.reads \cup Touched(t.writes)) # {}

(* Transaction.Commit: os.ErrClosed once committed or rolled back; otherwise
   it atomically applies the writes, or fails (a conflict, or the backend)
   and applies none. *)
CommitErr(t, ok) ==
  IF t.state # "open" THEN "ErrClosed"
  ELSE IF Conflict(t) THEN "ErrConflict"
  ELSE IF ok THEN "nil" ELSE "ErrCommit"
CommitTx(t, ok) ==
  IF CommitErr(t, ok) = "nil" THEN [t EXCEPT !.state = "committed"] ELSE t
(* Variant: a Commit that reports failure has applied the writes. *)
CommitStoreEvenIfFailed(t, ok) ==
  IF t.state = "open"
    THEN [store EXCEPT ![t.db] = ApplyWrites(store[t.db], t.writes)]
    ELSE store
CommitStore(t, ok) ==
  IF CommitErr(t, ok) = "nil"
    THEN [store EXCEPT ![t.db] = ApplyWrites(store[t.db], t.writes)]
    ELSE store
CommitChunks(t, ok) ==
  IF CommitErr(t, ok) = "nil" THEN Append(chunks, t.writes) ELSE chunks

(* Transaction.Rollback: nil on an open transaction, whose writes it drops;
   os.ErrClosed once committed or rolled back. *)
RollbackErr(t) == IF t.state = "open" THEN "nil" ELSE "ErrClosed"
(* Variant: Rollback leaves the transaction open. *)
RollbackTxNoop(t) == t
RollbackTx(t) == IF t.state = "open" THEN [t EXCEPT !.state = "rolledback"] ELSE t

NoSnap == [state |-> "none", view |-> EmptyStore, since |-> 0]
NoPeers == <<>>
NoCall == [state |-> "none"]
(* Database.NewSnapshot: a read-only view of the committed state; since is
   the number of transactions committed before it was created.
   Variant: the view includes the writes of the transaction in progress. *)
NewSnapshotDirty(d) ==
  [state |-> "open",
   view |-> IF tx.state = "open" /\ tx.db = d THEN tx.view ELSE store[d],
   since |-> Len(chunks)]
NewSnapshot(d) == [state |-> "open", view |-> store[d], since |-> Len(chunks)]
(* What reads of a snapshot see: the state it was created on.
   Variant: they see the committed state of the moment of the read. *)
SnapViewLive(s) == store[1]
SnapView(s) == s.view
(* Snapshot.Discard releases the snapshot. *)
DiscardSnap(s) == [s EXCEPT !.state = "discarded"]

(* Ranger.Ascend over the whole key space: the smallest key of the view
   after the last one yielded; Next is {} when the iteration is over. *)
After(view, c) == {k \in DOMAIN view : c = EmptyKey \/ KeyLess(c, k)}
NextKeys(view, c) ==
  {k \in After(view, c) : \A j \in After(view, c) : j = k \/ KeyLess(k, j)}

---------------------------------------------------------------------------
(* Initial states: one call, not yet started. *)

StoresOver(K) == UNION {[S -> Vals] : S \in SUBSET K}

InitCommon ==
  /\ pc = "start"
  /\ tx = NoTx
  /\ snap = NoSnap
  /\ pos = 0
  /\ sink = <<>>
  /\ cursor = EmptyKey
  /\ n = 0
  /\ done = FALSE
  /\ result = "running"
  /\ hist = <<>>
  /\ chunks = <<>>
  /\ pre = store
  /\ peers = NoPeers
  /\ reader = NoSnap
  /\ pr = NoCall

InitWith ==
  /\ op \in {[name |-> nm, db |-> 1, maxPerTx |-> 0] :
               nm \in {"WithReadWriter", "WithReader"}}
  /\ \E s \in StoresOver(Keys) : store = [d \in DBs |-> IF d = 1 THEN s ELSE EmptyStore]
  /\ stream = <<>>
  /\ InitCommon

Return(e) ==
  /\ result' = e
  /\ pc' = "done"

---------------------------------------------------------------------------
(* WithReadWriter(ctx, db, work) *)

(* tx, err := db.NewTransaction(ctx); if err != nil { return err } *)
WithReadWriterBegin ==
  /\ op.name = "WithReadWriter" /\ pc = "start"
  /\ \E ok \in BOOLEAN :
       IF ok
         THEN /\ tx' = NewTransaction(op.db)
              /\ hist' = hist \o << <<"NewTransaction", "nil">>, <<"work", "called">> >>
              /\ pc' = "work"
              /\ UNCHANGED result
         ELSE /\ hist' = Append(hist, <<"NewTransaction", "ErrBackend">>)
              /\ Return("ErrBackend")
              /\ UNCHANGED tx
  /\ UNCHANGED <<op, store, snap, stream, pos, sink, cursor, n, done, chunks, pre, peers, reader, pr>>

(* work calls Set on the ReadWriter it was given. *)
WorkSet ==
  /\ op.name = "WithReadWriter" /\ pc = "work" /\ n < MaxWorkOps
  /\ \E k \in Keys \cup {EmptyKey}, v \in Vals :
       /\ hist' = Append(hist, <<"Set", SetErr(tx, k)>>)
       /\ tx' = IF SetErr(tx, k) = "nil" THEN SetTx(tx, k, v) ELSE tx
  /\ n' = n + 1
  /\ UNCHANGED <<op, pc, store, snap, stream, pos, sink, cursor, done, result, chunks, pre, peers, reader, pr>>

(* work calls Delete on the ReadWriter it was given. *)
WorkDelete ==
  /\ op.name = "WithReadWriter" /\ pc = "work" /\ n < MaxWorkOps
  /\ \E k \in Keys :
       /\ hist' = Append(hist, <<"Delete", DeleteErr(tx, k)>>)
       /\ tx' = IF DeleteErr(tx, k) = "nil" THEN DeleteTx(tx, k) ELSE tx
  /\ n' = n + 1
  /\ UNCHANGED <<op, pc, store, snap, stream, pos, sink, cursor, done, result, chunks, pre, peers, reader, pr>>

(* What WithReadWriter does once work is over.  e is what work returned, or
   "panic"; ok tells whether the backend lets Commit through.
     defer tx.Rollback(ctx)
     if err := work(ctx, tx); err != nil { return err }
     return tx.Commit(ctx)                                                  *)
(* Variant: the error of work is not looked at. *)
WithReadWriterCommitsAnyway(e) == e # "panic"
WithReadWriterCommits(e) == e = "nil"
(* Variant: the error of the deferred Rollback replaces the result. *)
WithReadWriterResultFromRollback(cerr, rerr) == IF rerr # "nil" THEN rerr ELSE cerr
WithReadWriterResult(cerr, rerr) == cerr

WithReadWriterEnd ==
  /\ op.name = "WithReadWriter" /\ pc = "work"
  /\ \E e \in {"nil", "ErrWork", "panic"}, ok \in BOOLEAN :
       IF WithReadWriterCommits(e)
         THEN LET t1 == CommitTx(tx, ok)
              IN /\ store' = CommitStore(tx, ok)
                 /\ chunks' = CommitChunks(tx, ok)
                 /\ tx' = RollbackTx(t1)
                 /\ hist' = hist \o << <<"work", e>>,
                                       <<"Commit", CommitErr(tx, ok)>>,
                                       <<"Rollback", RollbackErr(t1)>> >>
                 /\ Return(WithReadWriterResult(CommitErr(tx, ok), RollbackErr(t1)))
         ELSE /\ tx' = RollbackTx(tx)
              /\ hist' = hist \o << <<"work", e>>,
                                    <<"Rollback", RollbackErr(tx)>> >>
              /\ Return(e)
              /\ UNCHANGED <<store, chunks>>
  /\ UNCHANGED <<op, snap, stream, pos, sink, cursor, n, done, pre, peers, reader, pr>>

---------------------------------------------------------------------------
(* WithReader(ctx, db, work) *)

(* snap, err := db.NewSnapshot(ctx); if err != nil { return err } *)
WithReaderBegin ==
  /\ op.name = "WithReader" /\ pc = "start"
  /\ \E ok \in BOOLEAN :
       IF ok
         THEN /\ snap' = NewSnapshot(op.db)
              /\ hist' = hist \o << <<"NewSnapshot", "nil">>, <<"work", "called">> >>
              /\ pc' = "work"
              /\ UNCHANGED result
         ELSE /\ hist' = Append(hist, <<"NewSnapshot", "ErrBackend">>)
              /\ Return("ErrBackend")
              /\ UNCHANGED snap
  /\ UNCHANGED <<op, store, tx, stream, pos, sink, cursor, n, done, chunks, pre, peers, reader, pr>>

(* work reads a key through the Reader it was given
   (Getter.Get: os.ErrInvalid, os.ErrNotExist or the value). *)
GetErr(view, k) ==
  IF k = EmptyKey THEN "ErrInvalid"
  ELSE IF k \notin DOMAIN view THEN "ErrNotExist"
  ELSE "nil"

WorkGet ==
  /\ op.name = "WithReader" /\ pc = "work" /\ n < MaxWorkOps
  /\ \E k \in Keys \cup {EmptyKey} :
       hist' = Append(hist, <<"Get", GetErr(SnapView(snap), k)>>)
  /\ n' = n + 1
  /\ UNCHANGED <<op, pc, store, tx, snap, stream, pos, sink, cursor, done, result, chunks, pre, peers, reader, pr>>

(* defer snap.Discard(ctx); return work(ctx, snap)
   e is what work returned, or "panic"; derr is what Discard returns. *)
(* Variant: the error of the deferred Discard is returned when work succeeds. *)
WithReaderResultFromDiscard(e, derr) == IF e = "nil" THEN derr ELSE e
WithReaderResult(e, derr) == e

WithReaderEnd ==
  /\ op.name = "WithReader" /\ pc = "work"
  /\ \E e \in {"nil", "ErrWork", "panic"}, derr \in {"nil", "ErrBackend"} :
       /\ snap' = DiscardSnap(snap)
       /\ hist' = hist \o << <<"work", e>>, <<"Discard", derr>> >>
       /\ Return(WithReaderResult(e, derr))
  /\ UNCHANGED <<op, store, tx, stream, pos, sink, cursor, n, done, chunks, pre, peers, reader, pr>>

---------------------------------------------------------------------------
(* The backup stream: gob messages, three per record. *)

(* crc64 over a byte string.  The model's function is, like CRC-64 on
   strings this short, free of collisions; the checksum of a record is taken
   over the key's bytes followed by the value's. *)
RECURSIVE Crc64(_, _)
Crc64(h, bytes) ==
  IF bytes = <<>> THEN h ELSE Crc64(h * 4 + Head(bytes) + 1, Tail(bytes))
Checksum(k, v) == Crc64(Crc64(0, k), v)

(* enc.Encode(k); enc.Encode(buffer.Bytes()); enc.Encode(checksum) *)
Record(k, v, sum) == << <<"string", k>>, <<"bytes", v>>, <<"uint64", sum>> >>
BackupRecord(k, v) == Record(k, v, Checksum(k, v))

(* dec.Decode(&x) for x of the given type: io.EOF at the end of the stream,
   an error for a message of another type. *)
Decode(s, p, type) ==
  IF p >= Len(s) THEN [err |-> "EOF", val |-> <<>>, pos |-> p]
  ELSE IF s[p + 1][1] # type THEN [err |-> "ErrDecode", val |-> <<>>, pos |-> p + 1]
  ELSE [err |-> "nil", val |-> s[p + 1][2], pos |-> p + 1]

(* Variant: the reader hashes the value before the key. *)
ChecksumOkValueFirst(sum, k, v) == sum = Checksum(v, k)
ChecksumOk(sum, k, v) == sum = Checksum(k, v)

(* nextBackupItem(ctx, dec) *)
nextBackupItem(s, p) ==
  LET dk == Decode(s, p, "string")
      dv == Decode(s, dk.pos, "bytes")
      dc == Decode(s, dv.pos, "uint64")
      none == [err |-> "nil", key |-> <<>>, value |-> <<>>, pos |-> p]
  IN IF dk.err # "nil" THEN [none EXCEPT !.err = dk.err, !.pos = dk.pos]
     ELSE IF dv.err # "nil" THEN [none EXCEPT !.err = dv.err, !.pos = dv.pos]
     ELSE IF dc.err # "nil" THEN [none EXCEPT !.err = dc.err, !.pos = dc.pos]
     ELSE IF ~ChecksumOk(dc.val, dk.val, dv.val)
       THEN [none EXCEPT !.err = "ErrChecksum", !.pos = dc.pos]
     ELSE [err |-> "nil", key |-> dk.val, value |-> dv.val, pos |-> dc.pos]

(* The records a stream handed to Restore is made of: every key with every
   value, a record with the empty key, and a record whose checksum is off. *)
StreamRecs ==
  {BackupRecord(k, v) : k \in Keys \cup {EmptyKey}, v \in Vals}
    \cup {Record(<<1>>, <<2>>, Checksum(<<1>>, <<2>>) + 1)}

RECURSIVE Streams(_)
Streams(len) ==
  IF len = 0 THEN {<<>>}
  ELSE LET shorter == Streams(len - 1)
       IN shorter \cup {s \o r : s \in {x \in shorter : Len(x) = 3 * (len - 1)},
                                 r \in StreamRecs}

ChunkSizes == -1 .. MaxChunk

(* if maxPerTx == 0 { maxPerTx = math.MaxInt64 } *)
(* Variant: zero is taken for a chunk size of one. *)
EffectiveMaxOne(m) == IF m = 0 THEN 1 ELSE m
EffectiveMax(m) == IF m = 0 THEN MaxInt64 ELSE m
(* if maxPerTx < 0 { return os.ErrInvalid } *)
(* Variant: -1 passes the argument check. *)
InvalidMaxOffByOne(m) == EffectiveMax(m) < -1
InvalidMax(m) == EffectiveMax(m) < 0

---------------------------------------------------------------------------
(* Restore(ctx, db, r, maxPerTx) *)

RestoreStores == {EmptyStore, [k \in {<<1>>, <<2>>} |-> <<2>>]}

InitRestore ==
  /\ op \in {[name |-> "Restore", db |-> 1, maxPerTx |-> m] : m \in ChunkSizes}
  /\ \E s \in RestoreStores : store = [d \in DBs |-> IF d = 1 THEN s ELSE EmptyStore]
  /\ stream \in Streams(MaxRecs)
  /\ InitCommon

RestoreBegin ==
  /\ op.name = "Restore" /\ pc = "start"
  /\ IF InvalidMax(op.maxPerTx)
       THEN Return("ErrInvalid")
       ELSE pc' = "newtx" /\ UNCHANGED result
  /\ UNCHANGED <<op, store, tx, snap, stream, pos, sink, cursor, n, done, hist, chunks, pre, peers, reader, pr>>

(* The chunk's function has returned err to the outer loop of Restore or
   Clear:  if err != nil { return err }
   Variant: a chunk that failed on a conflict does not end the call. *)
ChunkFailedUnlessConflict(err) == err \notin {"nil", "ErrConflict"}
ChunkFailed(err) == err # "nil"

(* Is the record loop of the chunk over after i records?
     for i := int64(0); i < maxPerTx; i++                                   *)
(* Variant: the loop test is i <= maxPerTx. *)
ChunkFullOffByOne(i, m) == ~(i <= EffectiveMax(m))
ChunkFull(i, m) == ~(i < EffectiveMax(m))

(* for done := false; !done; { tx, err := db.NewTransaction(ctx) ... *)
RestoreNewTransaction ==
  /\ op.name = "Restore" /\ pc = "newtx"
  /\ \E ok \in BOOLEAN :
       IF ok
         THEN /\ tx' = NewTransaction(op.db)
              /\ hist' = Append(hist, <<"NewTransaction", "nil">>)
              /\ n' = 0
              /\ pc' = IF ChunkFull(0, op.maxPerTx) THEN "commit" ELSE "loop"
              /\ UNCHANGED result
         ELSE /\ hist' = Append(hist, <<"NewTransaction", "ErrBackend">>)
              /\ Return("ErrBackend")
              /\ UNCHANGED <<tx, n>>
  /\ UNCHANGED <<op, store, snap, stream, pos, sink, cursor, done, chunks, pre, peers, reader, pr>>

(* One round of the record loop: nextBackupItem, then tx.Set.  Any error
   but io.EOF returns from the chunk, which runs the deferred Rollback. *)
RestoreItem ==
  /\ op.name = "Restore" /\ pc = "loop"
  /\ LET it == nextBackupItem(stream, pos)
     IN /\ pos' = it.pos
        /\ IF it.err = "EOF"
             THEN /\ done' = TRUE
                  /\ pc' = "commit"
                  /\ UNCHANGED <<tx, n, result, hist>>
           ELSE IF it.err # "nil"
             THEN /\ tx' = RollbackTx(tx)
                  /\ hist' = Append(hist, <<"Rollback", RollbackErr(tx)>>)
                  /\ Return(it.err)
                  /\ UNCHANGED <<n, done>>
           ELSE \E ok \in BOOLEAN :
                  LET serr == IF SetErr(tx, it.key) # "nil" THEN SetErr(tx, it.key)
                              ELSE IF ok THEN "nil" ELSE "ErrBackend"
                  IN IF serr # "nil"
                       THEN /\ tx' = RollbackTx(tx)
                            /\ hist' = hist \o << <<"Set", serr>>,
                                                  <<"Rollback", RollbackErr(tx)>> >>
                            /\ Return(serr)
                            /\ UNCHANGED <<n, done>>
                       ELSE /\ tx' = SetTx(tx, it.key, it.value)
                            /\ hist' = Append(hist, <<"Set", "nil">>)
                            /\ n' = n + 1
                            /\ pc' = IF ChunkFull(n + 1, op.maxPerTx) THEN "commit" ELSE "loop"
                            /\ UNCHANGED <<done, result>>
  /\ UNCHANGED <<op, store, snap, stream, sink, cursor, chunks, pre, peers, reader, pr>>

(* if err := tx.Commit(ctx); err != nil { return err }; return nil
   followed by the deferred Rollback and the test of done. *)
RestoreCommit ==
  /\ op.name = "Restore" /\ pc = "commit"
  /\ \E ok \in BOOLEAN :
       LET t1 == CommitTx(tx, ok)
           cerr == CommitErr(tx, ok)
       IN /\ store' = CommitStore(tx, ok)
          /\ chunks' = CommitChunks(tx, ok)
          /\ tx' = RollbackTx(t1)
          /\ hist' = hist \o << <<"Commit", cerr>>, <<"Rollback", RollbackErr(t1)>> >>
          /\ IF ChunkFailed(cerr) THEN Return(cerr)
             ELSE IF done THEN Return("nil")
             ELSE pc' = "newtx" /\ UNCHANGED result
  /\ UNCHANGED <<op, snap, stream, pos, sink, cursor, n, done, pre, peers, reader, pr>>


---------------------------------------------------------------------------
(* Clear(ctx, db, maxPerTx) *)

InitClear ==
  /\ op \in {[name |-> "Clear", db |-> 1, maxPerTx |-> m] : m \in ChunkSizes}
  /\ \E s \in StoresOver(Keys) : store = [d \in DBs |-> IF d = 1 THEN s ELSE EmptyStore]
  /\ stream = <<>>
  /\ InitCommon

ClearBegin ==
  /\ op.name = "Clear" /\ pc = "start"
  /\ IF InvalidMax(op.maxPerTx)
       THEN Return("ErrInvalid")
       ELSE pc' = "newtx" /\ UNCHANGED result
  /\ UNCHANGED <<op, store, tx, snap, stream, pos, sink, cursor, n, done, hist, chunks, pre, peers, reader, pr>>

(* for done := false; !done; { tx, err := db.NewTransaction(ctx) ...
   n := int64(0); for k := range tx.Ascend(ctx, "", "", &err)              *)
ClearNewTransaction ==
  /\ op.name = "Clear" /\ pc = "newtx"
  /\ \E ok \in BOOLEAN :
       IF ok
         THEN /\ tx' = NewTransaction(op.db)
              /\ hist' = Append(hist, <<"NewTransaction", "nil">>)
              /\ n' = 0
              /\ cursor' = EmptyKey
              /\ pc' = "iter"
              /\ UNCHANGED result
         ELSE /\ hist' = Append(hist, <<"NewTransaction", "ErrBackend">>)
              /\ Return("ErrBackend")
              /\ UNCHANGED <<tx, n, cursor>>
  /\ UNCHANGED <<op, store, snap, stream, pos, sink, done, chunks, pre, peers, reader, pr>>

(* if n == maxPerTx { break } *)
(* Variant: the break comes one key late. *)
ClearBreaksLate(cnt, m) == cnt > EffectiveMax(m)
ClearBreaks(cnt, m) == cnt = EffectiveMax(m)

(* One round of the Ascend loop: the iterator yields the next key of the
   transaction's view and Clear deletes it. *)
ClearDelete ==
  /\ op.name = "Clear" /\ pc = "iter"
  /\ \E k \in NextKeys(tx.view, cursor), ok \in BOOLEAN :
       LET derr == IF DeleteErr(tx, k) # "nil" THEN DeleteErr(tx, k)
                   ELSE IF ok THEN "nil" ELSE "ErrBackend"
       IN IF derr # "nil"
            THEN /\ tx' = RollbackTx(tx)
                 /\ hist' = hist \o << <<"Delete", derr>>,
                                       <<"Rollback", RollbackErr(tx)>> >>
                 /\ Return(derr)
                 /\ UNCHANGED <<n, cursor>>
            ELSE /\ tx' = DeleteTx([tx EXCEPT !.reads = @ \cup {k}], k)
                 /\ hist' = Append(hist, <<"Delete", "nil">>)
                 /\ n' = n + 1
                 /\ cursor' = k
                 /\ pc' = IF ClearBreaks(n + 1, op.maxPerTx) THEN "after" ELSE "iter"
                 /\ UNCHANGED result
  /\ UNCHANGED <<op, store, snap, stream, pos, sink, done, chunks, pre, peers, reader, pr>>

(* Does the chunk that deleted cnt keys end Clear without a Commit?
     if n == 0 { done = true; return nil }                                  *)
(* Variant: a chunk of one key is taken for an empty one. *)
ClearStopsEarly(cnt) == cnt <= 1
ClearStops(cnt) == cnt = 0

(* The Ascend loop is over (no key left, a break, or the iterator failed and
   set the error slot):
     if err != nil { return err }
     if n == 0 { done = true; return nil }
     if err := tx.Commit(ctx); err != nil { return err }
   followed by the deferred Rollback and the test of done. *)
ClearChunkEnd ==
  /\ op.name = "Clear"
  /\ \/ pc = "after"
     \/ pc = "iter"
  /\ \E ierr \in {"nil", "ErrIter"}, ok \in BOOLEAN :
       /\ (pc = "iter" /\ NextKeys(tx.view, cursor) # {}) => ierr # "nil"
       /\ IF ierr # "nil"
            THEN /\ tx' = RollbackTx(tx)
                 /\ hist' = hist \o << <<"Ascend", ierr>>,
                                       <<"Rollback", RollbackErr(tx)>> >>
                 /\ Return(ierr)
                 /\ UNCHANGED <<store, chunks, done>>
          ELSE IF ClearStops(n)
            THEN /\ done' = TRUE
                 /\ tx' = RollbackTx(tx)
                 /\ hist' = Append(hist, <<"Rollback", RollbackErr(tx)>>)
                 /\ Return("nil")
                 /\ UNCHANGED <<store, chunks>>
          ELSE LET t1 == CommitTx(tx, ok)
                   cerr == CommitErr(tx, ok)
               IN /\ store' = CommitStore(tx, ok)
                  /\ chunks' = CommitChunks(tx, ok)
                  /\ tx' = RollbackTx(t1)
                  /\ hist' = hist \o << <<"Commit", cerr>>,
                                        <<"Rollback", RollbackErr(t1)>> >>
                  /\ IF ChunkFailed(cerr) THEN Return(cerr)
                     ELSE pc' = "newtx" /\ UNCHANGED result
                  /\ UNCHANGED done
  /\ UNCHANGED <<op, snap, stream, pos, sink, cursor, n, pre, peers, reader, pr>>

---------------------------------------------------------------------------
(* Backup(ctx, db, w) *)

InitBackup ==
  /\ op \in {[name |-> "Backup", db |-> 1, maxPerTx |-> 0]}
  /\ \E s \in StoresOver(Keys) : store = [d \in DBs |-> IF d = 1 THEN s ELSE EmptyStore]
  /\ stream = <<>>
  /\ InitCommon

(* snap, err := db.NewSnapshot(ctx); if err != nil { return err }
   for k, v := range snap.Ascend(ctx, "", "", &err)                        *)
BackupBegin ==
  /\ op.name = "Backup" /\ pc = "start"
  /\ \E ok \in BOOLEAN :
       IF ok
         THEN /\ snap' = NewSnapshot(op.db)
              /\ hist' = Append(hist, <<"NewSnapshot", "nil">>)
              /\ cursor' = EmptyKey
              /\ pc' = "iter"
              /\ UNCHANGED result
         ELSE /\ hist' = Append(hist, <<"NewSnapshot", "ErrBackend">>)
              /\ Return("ErrBackend")
              /\ UNCHANGED <<snap, cursor>>
  /\ UNCHANGED <<op, store, tx, stream, pos, sink, n, done, chunks, pre, peers, reader, pr>>

(* The messages of a record that reach the writer when the step named by
   fail fails: io.Copy of the value, or one of the three Encode calls. *)
Written(rec, fail) ==
  CASE fail = "ErrRead" -> <<>>
    [] fail = "ErrWriteKey" -> <<>>
    [] fail = "ErrWriteValue" -> SubSeq(rec, 1, 1)
    [] fail = "ErrWriteSum" -> SubSeq(rec, 1, 2)
    [] OTHER -> rec

(* One round of the Ascend loop: read the value, take the checksum, encode
   key, value and checksum. *)
BackupItem ==
  /\ op.name = "Backup" /\ pc = "iter"
  /\ \E k \in NextKeys(SnapView(snap), cursor),
        fail \in {"nil", "ErrRead", "ErrWriteKey", "ErrWriteValue", "ErrWriteSum"} :
       /\ sink' = sink \o Written(BackupRecord(k, SnapView(snap)[k]), fail)
       /\ IF fail # "nil"
            THEN /\ snap' = DiscardSnap(snap)
                 /\ hist' = Append(hist, <<"Discard", "nil">>)
                 /\ Return(fail)
                 /\ UNCHANGED <<n, cursor>>
            ELSE /\ n' = n + 1
                 /\ cursor' = k
                 /\ UNCHANGED <<snap, hist, pc, result>>
  /\ UNCHANGED <<op, store, tx, stream, pos, done, chunks, pre, peers, reader, pr>>

(* What Backup returns once the loop is over, given the error slot:
     if err != nil { return err }; return nil                              *)
(* Variant: the error slot is not looked at. *)
BackupResultIgnoresSlot(ierr) == "nil"
BackupResult(ierr) == ierr

(* The loop is over: no key left, or the iterator failed and set the error
   slot.  The deferred Discard runs. *)
BackupEnd ==
  /\ op.name = "Backup" /\ pc = "iter"
  /\ \E ierr \in {"nil", "ErrIter"} :
       /\ NextKeys(SnapView(snap), cursor) # {} => ierr # "nil"
       /\ snap' = DiscardSnap(snap)
       /\ hist' = hist \o << <<"Ascend", ierr>>, <<"Discard", "nil">> >>
       /\ Return(BackupResult(ierr))
  /\ UNCHANGED <<op, store, tx, stream, pos, sink, cursor, n, done, chunks, pre, peers, reader, pr>>

(* The stream a successful Backup wrote is handed to Restore, on the second,
   empty database. *)
RestoreOfBackup ==
  /\ op.name = "Backup" /\ pc = "done" /\ result = "nil"
  /\ \E m \in ChunkSizes \ {-1} :
       op' = [name |-> "Restore", db |-> 2, maxPerTx |-> m]
  /\ stream' = sink
  /\ pos' = 0
  /\ n' = 0
  /\ done' = FALSE
  /\ pc' = "start"
  /\ result' = "running"
  /\ hist' = <<>>
  /\ UNCHANGED <<store, tx, snap, sink, cursor, chunks, pre, peers, reader, pr>>

---------------------------------------------------------------------------
(* ValidateBackup(ctx, r) *)

InitValidate ==
  /\ op \in {[name |-> "ValidateBackup", db |-> 1, maxPerTx |-> 0]}
  /\ \E s \in RestoreStores : store = [d \in DBs |-> IF d = 1 THEN s ELSE EmptyStore]
  /\ stream \in Streams(MaxRecs)
  /\ InitCommon

(* Variant: every error of nextBackupItem ends the scan like io.EOF. *)
ValidateBackupResultLenient(err) == "nil"
(* What ValidateBackup returns when nextBackupItem fails with err:
     if errors.Is(err, io.EOF) { break }; return err  ...  return nil       *)
ValidateBackupResult(err) == IF err = "EOF" THEN "nil" ELSE err

(* One round of the loop: nextBackupItem, whose record is dropped. *)
ValidateItem ==
  /\ op.name = "ValidateBackup" /\ pc \in {"start", "loop"}
  /\ LET it == nextBackupItem(stream, pos)
     IN /\ pos' = it.pos
        /\ IF it.err = "nil"
             THEN pc' = "loop" /\ UNCHANGED result
             ELSE Return(ValidateBackupResult(it.err))
  /\ UNCHANGED <<op, store, tx, snap, stream, sink, cursor, n, done, hist, chunks, pre, peers, reader, pr>>

(* A stream with the key or the value of one record replaced. *)
Altered(s) ==
  {[s EXCEPT ![3 * i - 2] = <<"string", k>>] :
     i \in 1..(Len(s) \div 3), k \in Keys \cup {EmptyKey}}
  \cup {[s EXCEPT ![3 * i - 1] = <<"bytes", v>>] :
     i \in 1..(Len(s) \div 3), v \in Vals}

(* The stream a successful Backup wrote is handed to ValidateBackup, as
   written or with one field of one record altered. *)
ValidateOfBackup ==
  /\ op.name = "Backup" /\ pc = "done" /\ result = "nil"
  /\ op' = [name |-> "ValidateBackup", db |-> 1, maxPerTx |-> 0]
  /\ stream' \in {sink} \cup Altered(sink)
  /\ pos' = 0
  /\ pc' = "start"
  /\ result' = "running"
  /\ hist' = <<>>
  /\ UNCHANGED <<store, tx, snap, sink, cursor, n, done, chunks, pre, peers, reader, pr>>

---------------------------------------------------------------------------
NextBulk ==
  \/ RestoreBegin
  \/ RestoreNewTransaction
  \/ RestoreItem
  \/ RestoreCommit
  \/ ClearBegin
  \/ ClearNewTransaction
  \/ ClearDelete
  \/ ClearChunkEnd
  \/ BackupBegin
  \/ BackupItem
  \/ BackupEnd
  \/ RestoreOfBackup
  \/ ValidateItem
  \/ ValidateOfBackup

InitBulk == InitRestore \/ InitClear \/ InitBackup \/ InitValidate

SpecBulk == InitBulk /\ [][NextBulk]_vars

(* Restore and ValidateBackup on a stream that ends inside a record: whole
   records followed by the key, or the key and the value, of one more. *)
MaxCutRecs == 2   \* most whole records before the cut

CutStreams ==
  {s \o SubSeq(BackupRecord(k, v), 1, c) :
     s \in {x \in Streams(MaxCutRecs) :
              \A i \in 1..(Len(x) \div 3) :
                ChecksumOk(x[3 * i][2], x[3 * i - 2][2], x[3 * i - 1][2])},
     k \in Keys, v \in Vals, c \in 1..2}

InitCut ==
  /\ op \in {[name |-> "Restore", db |-> 1, maxPerTx |-> m] : m \in ChunkSizes \ {-1}}
            \cup {[name |-> "ValidateBackup", db |-> 1, maxPerTx |-> 0]}
  /\ \E s \in RestoreStores : store = [d \in DBs |-> IF d = 1 THEN s ELSE EmptyStore]
  /\ stream \in CutStreams
  /\ InitCommon

NextCut ==
  \/ RestoreBegin
  \/ RestoreNewTransaction
  \/ RestoreItem
  \/ RestoreCommit
  \/ ValidateItem

SpecCut == InitCut /\ [][NextCut]_vars

(* PrefixRange(dir), in its two versions: kvutil/util.go builds the end key
   with fmt.Sprintf("%c", dir[n-1]+1), the later one with prefixEnd. *)
MaxPrefixLen == 2   \* longest prefix tried
MaxProbeLen == 2    \* longest probe key tried

PrefixBytes == {0, 1, 127, 255}
ProbeBytes == {0, 1, 2, 127, 128, 255}

RECURSIVE ByteStrings(_, _)
ByteStrings(bytes, len) ==
  IF len = 0 THEN {<<>>}
  ELSE LET shorter == ByteStrings(bytes, len - 1)
       IN shorter \cup {Append(x, b) : x \in shorter, b \in bytes}

(* dir[n-1]+1 on a byte wraps around at 256. *)
ByteInc(b) == (b + 1) % 256

(* fmt.Sprintf("%c", c) for an integer c < 256: the UTF-8 encoding of the
   code point c, one byte below 0x80 and two bytes from 0x80 on. *)
SprintfC(c) == IF c < 128 THEN <<c>> ELSE <<192 + (c \div 64), 128 + (c % 64)>>

(* PrefixRange of src/kvutil/util.go *)
PrefixRangeSprintf(dir) ==
  LET len == Len(dir)
  IN IF len = 0 THEN [begin |-> <<>>, end |-> <<>>]
     ELSE [begin |-> dir,
           end |-> SubSeq(dir, 1, len - 1) \o SprintfC(ByteInc(dir[len]))]

(* prefixEnd: the last byte that is not 0xff is incremented and what
   follows it is cut; "" when there is no such byte. *)
RECURSIVE prefixEnd(_)
prefixEnd(prefix) ==
  IF prefix = <<>> THEN <<>>
  ELSE LET i == Len(prefix)
       IN IF prefix[i] # 255
            THEN [prefix EXCEPT ![i] = prefix[i] + 1]
            ELSE prefixEnd(SubSeq(prefix, 1, i - 1))

(* PrefixRange calling prefixEnd *)
PrefixRange(dir) == [begin |-> dir, end |-> prefixEnd(dir)]

InitPrefix ==
  /\ pr \in [state : {"call"}, file : {"util.go", "prefixEnd"},
             dir : ByteStrings(PrefixBytes, MaxPrefixLen),
             key : ByteStrings(ProbeBytes, MaxProbeLen),
             begin : {<<>>}, end : {<<>>}]
  /\ op = [name |-> "PrefixRange", db |-> 1, maxPerTx |-> 0]
  /\ store = [d \in DBs |-> EmptyStore]
  /\ stream = <<>>
  /\ pc = "start"
  /\ tx = NoTx
  /\ snap = NoSnap
  /\ pos = 0
  /\ sink = <<>>
  /\ cursor = EmptyKey
  /\ n = 0
  /\ done = FALSE
  /\ result = "running"
  /\ hist = <<>>
  /\ chunks = <<>>
  /\ pre = store
  /\ peers = NoPeers
  /\ reader = NoSnap

PrefixRangeCallSprintf ==
  /\ pr.state = "call" /\ pr.file = "util.go"
  /\ pr' = [pr EXCEPT !.state = "returned",
                      !.begin = PrefixRangeSprintf(pr.dir).begin,
                      !.end = PrefixRangeSprintf(pr.dir).end]
  /\ UNCHANGED <<op, pc, store, tx, snap, stream, pos, sink, cursor, n, done,
                 result, hist, chunks, pre, peers, reader>>

PrefixRangeCall ==
  /\ pr.state = "call" /\ pr.file = "prefixEnd"
  /\ pr' = [pr EXCEPT !.state = "returned",
                      !.begin = PrefixRange(pr.dir).begin,
                      !.end = PrefixRange(pr.dir).end]
  /\ UNCHANGED <<op, pc, store, tx, snap, stream, pos, sink, cursor, n, done,
                 result, hist, chunks, pre, peers, reader>>

NextPrefix ==
  \/ PrefixRangeCallSprintf
  \/ PrefixRangeCall

SpecPrefix == InitPrefix /\ [][NextPrefix]_vars

(* Concurrent clients of database 1: each peer holds one transaction, on
   which it calls Get, Set, Delete, Commit and Rollback, while the helper
   call in progress (if any) runs. *)
MaxPeerOps == 2     \* most Gets, Sets and Deletes of a peer
MaxTermCalls == 2   \* most Commit and Rollback calls of a peer

Peers == {1, 2}
(* The one peer that writes while Backup or Restore runs. *)
Writers == {1}
PeerKeys == {<<1>>, <<2>>}
(* Peer p writes the one-byte value p. *)
PeerVal(p) == <<p>>

(* t: the transaction; outs: the outcomes of its Commit and Rollback calls,
   in order; at: the number of transactions committed once it had. *)
NoPeer == [t |-> NoTx, outs |-> <<>>, at |-> 0]

PeerOps(p) == Cardinality(peers[p].t.reads) + Len(peers[p].t.writes)

PeerFrame ==
  UNCHANGED <<op, pc, tx, snap, stream, pos, sink, cursor, n, done, result,
              hist, pre, reader, pr>>

PeerNewTransaction(p) ==
  /\ peers[p].t.state = "none"
  /\ peers' = [peers EXCEPT ![p].t = NewTransaction(1)]
  /\ UNCHANGED <<store, chunks>>
  /\ PeerFrame

(* Getter.Get: the transaction has read the key. *)
PeerGet(p) ==
  /\ peers[p].t.state = "open" /\ PeerOps(p) < MaxPeerOps
  /\ \E k \in PeerKeys \ peers[p].t.reads :
       peers' = [peers EXCEPT ![p].t.reads = @ \cup {k}]
  /\ UNCHANGED <<store, chunks>>
  /\ PeerFrame

(* A peer sets a key at most once in its transaction. *)
PeerSet(p) ==
  /\ peers[p].t.state = "open" /\ PeerOps(p) < MaxPeerOps
  /\ \E k \in PeerKeys \ Touched(peers[p].t.writes) :
       /\ SetErr(peers[p].t, k) = "nil"
       /\ peers' = [peers EXCEPT ![p].t = SetTx(@, k, PeerVal(p))]
  /\ UNCHANGED <<store, chunks>>
  /\ PeerFrame

PeerDelete(p) ==
  /\ peers[p].t.state = "open" /\ PeerOps(p) < MaxPeerOps
  /\ \E k \in PeerKeys :
       /\ DeleteErr(peers[p].t, k) = "nil"
       /\ peers' = [peers EXCEPT ![p].t = DeleteTx(@, k)]
  /\ UNCHANGED <<store, chunks>>
  /\ PeerFrame

(* Commit on a transaction that has already committed: os.ErrClosed by the
   Transaction interface of db.go, nil by the later one ("Returns nil on
   success or if the transaction has already committed"); again is TRUE for
   the later one.
   Variant: the later interface returns nil on every closed transaction. *)
CommitAgainErrAnyClosed(t, ok, again) ==
  IF again /\ t.state \in {"committed", "rolledback"} THEN "nil"
  ELSE CommitErr(t, ok)
CommitAgainErr(t, ok, again) ==
  IF again /\ t.state = "committed" THEN "nil" ELSE CommitErr(t, ok)

PeerCommit(p) ==
  /\ peers[p].t.state # "none" /\ Len(peers[p].outs) < MaxTermCalls
  /\ \E ok \in BOOLEAN, again \in BOOLEAN :
       LET t == peers[p].t
       IN /\ peers' = [peers EXCEPT
                         ![p].t = CommitTx(t, ok),
                         ![p].outs = Append(@, <<"Commit", CommitAgainErr(t, ok, again)>>),
                         ![p].at = IF CommitErr(t, ok) = "nil"
                                     THEN Len(chunks) + 1 ELSE @]
          /\ store' = CommitStore(t, ok)
          /\ chunks' = CommitChunks(t, ok)
  /\ PeerFrame

PeerRollback(p) ==
  /\ peers[p].t.state # "none" /\ Len(peers[p].outs) < MaxTermCalls
  /\ peers' = [peers EXCEPT
                 ![p].t = RollbackTx(@),
                 ![p].outs = Append(@, <<"Rollback", RollbackErr(peers[p].t)>>)]
  /\ UNCHANGED <<store, chunks>>
  /\ PeerFrame

(* Two clients, each with one transaction, and no helper call. *)
InitTx ==
  /\ op = [name |-> "none", db |-> 1, maxPerTx |-> 0]
  /\ \E s \in {[k \in PeerKeys |-> <<>>]} :
       store = [d \in DBs |-> IF d = 1 THEN s ELSE EmptyStore]
  /\ stream = <<>>
  /\ pc = "start"
  /\ tx = NoTx
  /\ snap = NoSnap
  /\ pos = 0
  /\ sink = <<>>
  /\ cursor = EmptyKey
  /\ n = 0
  /\ done = FALSE
  /\ result = "running"
  /\ hist = <<>>
  /\ chunks = <<>>
  /\ pre = store
  /\ peers = [p \in Peers |-> NoPeer]
  /\ reader = NoSnap
  /\ pr = NoCall

NextTx ==
  \/ \E p \in DOMAIN peers : PeerNewTransaction(p)
  \/ \E p \in DOMAIN peers : PeerGet(p)
  \/ \E p \in DOMAIN peers : PeerSet(p)
  \/ \E p \in DOMAIN peers : PeerCommit(p)
  \/ \E p \in DOMAIN peers : PeerRollback(p)

SpecTx == InitTx /\ [][NextTx]_vars

(* Backup of database 1 while the peers write to it. *)
InitDump ==
  /\ op = [name |-> "Backup", db |-> 1, maxPerTx |-> 0]
  /\ \E s \in StoresOver(PeerKeys) :
       store = [d \in DBs |-> IF d = 1 THEN s ELSE EmptyStore]
  /\ stream = <<>>
  /\ pc = "start"
  /\ tx = NoTx
  /\ snap = NoSnap
  /\ pos = 0
  /\ sink = <<>>
  /\ cursor = EmptyKey
  /\ n = 0
  /\ done = FALSE
  /\ result = "running"
  /\ hist = <<>>
  /\ chunks = <<>>
  /\ pre = store
  /\ peers = [p \in Writers |-> NoPeer]
  /\ reader = NoSnap
  /\ pr = NoCall

NextDump ==
  \/ BackupBegin
  \/ BackupItem
  \/ BackupEnd
  \/ \E p \in DOMAIN peers : PeerNewTransaction(p)
  \/ \E p \in DOMAIN peers : PeerSet(p)
  \/ \E p \in DOMAIN peers : PeerDelete(p)
  \/ \E p \in DOMAIN peers : PeerCommit(p)

SpecDump == InitDump /\ [][NextDump]_vars

(* Restore into database 1 while a reader takes a snapshot of it, at any
   moment of the call. *)
ReaderSnapshot ==
  /\ op.name = "Restore" /\ reader.state = "none"
  /\ reader' = NewSnapshot(op.db)
  /\ UNCHANGED <<op, pc, store, tx, snap, stream, pos, sink, cursor, n, done,
                 result, hist, chunks, pre, peers, pr>>

InitChunks ==
  /\ InitRestore
  /\ op.maxPerTx >= 0

NextChunks ==
  \/ RestoreBegin
  \/ RestoreNewTransaction
  \/ RestoreItem
  \/ RestoreCommit
  \/ ReaderSnapshot

SpecChunks == InitChunks /\ [][NextChunks]_vars

(* Clear alone, run to its end: the goroutine that called it keeps taking
   its next step. *)
NextClear ==
  \/ ClearBegin
  \/ ClearNewTransaction
  \/ ClearDelete
  \/ ClearChunkEnd

SpecClearLive == InitClear /\ [][NextClear]_vars /\ WF_vars(NextClear)

(* Restore or Clear on database 1 while a peer writes to it.  The streams
   restored hold valid records of the keys the peer writes, each key at
   most once. *)
RetryStreams ==
  {s \in Streams(MaxRecs) :
     \A i \in 1..(Len(s) \div 3) :
       /\ s[3 * i - 2][2] \in PeerKeys
       /\ SubSeq(s, 3 * i - 2, 3 * i) = BackupRecord(s[3 * i - 2][2], <<2>>)
       /\ \A j \in 1..(i - 1) : s[3 * j - 2][2] # s[3 * i - 2][2]}

InitRetry ==
  /\ op \in {[name |-> nm, db |-> 1, maxPerTx |-> m] :
               nm \in {"Restore", "Clear"}, m \in ChunkSizes \ {-1}}
  /\ store = [d \in DBs |-> IF d = 1 THEN [k \in PeerKeys |-> <<>>] ELSE EmptyStore]
  /\ stream \in IF op.name = "Restore" THEN RetryStreams ELSE {<<>>}
  /\ pc = "start"
  /\ tx = NoTx
  /\ snap = NoSnap
  /\ pos = 0
  /\ sink = <<>>
  /\ cursor = EmptyKey
  /\ n = 0
  /\ done = FALSE
  /\ result = "running"
  /\ hist = <<>>
  /\ chunks = <<>>
  /\ pre = store
  /\ peers = [p \in Writers |-> NoPeer]
  /\ reader = NoSnap
  /\ pr = NoCall

NextRetry ==
  \/ RestoreBegin
  \/ RestoreNewTransaction
  \/ RestoreItem
  \/ RestoreCommit
  \/ ClearBegin
  \/ ClearNewTransaction
  \/ ClearDelete
  \/ ClearChunkEnd
  \/ \E p \in DOMAIN peers : PeerNewTransaction(p)
  \/ \E p \in DOMAIN peers : PeerSet(p)
  \/ \E p \in DOMAIN peers : PeerDelete(p)
  \/ \E p \in DOMAIN peers : PeerCommit(p)

SpecRetry == InitRetry /\ [][NextRetry]_vars

NextWith ==
  \/ WithReadWriterBegin
  \/ WorkSet
  \/ WorkDelete
  \/ WithReadWriterEnd
  \/ WithReaderBegin
  \/ WorkGet
  \/ WithReaderEnd

SpecWith == InitWith /\ [][NextWith]_vars

---------------------------------------------------------------------------
(* What the properties below read off the history. *)

Calls(call) == {i \in DOMAIN hist : hist[i][1] = call}
Count(call, outcome) == Cardinality({i \in DOMAIN hist : hist[i] = <<call, outcome>>})
Happened(call, outcome) == \E i \in DOMAIN hist : hist[i] = <<call, outcome>>
BackendFailed ==
  \E i \in DOMAIN hist :
    hist[i][2] \in {"ErrBackend", "ErrCommit", "ErrIter", "ErrRead",
                    "ErrWriteKey", "ErrWriteValue", "ErrWriteSum"}

(* The Sets a stream asks for: its records up to the first that
   nextBackupItem does not return. *)
RECURSIVE StreamWrites(_, _)
StreamWrites(s, p) ==
  LET it == nextBackupItem(s, p)
  IN IF it.err # "nil" THEN <<>>
     ELSE << <<"set", it.key, it.value>> >> \o StreamWrites(s, it.pos)

CeilDiv(a, b) == (a + b - 1) \div b

Finished(name) == op.name = name /\ pc = "done"

(* C1: when work returns an error, WithReadWriter never calls Commit, calls
   Rollback (which succeeds), returns work's error, and the committed store
   is what it was before the call, whatever work wrote. *)
C1_WorkErrorRollsBack ==
  (Finished("WithReadWriter") /\ Happened("work", "ErrWork")) =>
    /\ Calls("Commit") = {}
    /\ Count("Rollback", "nil") = 1
    /\ tx.state = "rolledback"
    /\ result = "ErrWork"
    /\ store = pre
    /\ chunks = <<>>

C1_Witness ==
  /\ Finished("WithReadWriter") /\ Happened("work", "ErrWork")
  /\ Len(tx.writes) = 2
  /\ tx.view # pre[1]

(* C2: a transaction WithReadWriter created ends committed or rolled back by
   exactly one successful terminal call.  When work returns nil, Commit is
   called exactly once, after work returned, and its result is the value
   returned; after a successful Commit the Rollback that follows reports
   os.ErrClosed and the store holds every write of the transaction. *)
C2_OneTerminalAction ==
  (Finished("WithReadWriter") /\ tx.state # "none") =>
    /\ tx.state \in {"committed", "rolledback"}
    /\ Count("Commit", "nil") + Count("Rollback", "nil") = 1
    /\ Happened("work", "nil") =>
         /\ Cardinality(Calls("Commit")) = 1
         /\ \A c \in Calls("Commit") :
              /\ c > 1 /\ hist[c - 1] = <<"work", "nil">>
              /\ c < Len(hist) /\ hist[c + 1][1] = "Rollback"
              /\ result = hist[c][2]
         /\ Happened("Commit", "nil") =>
              /\ tx.state = "committed"
              /\ Happened("Rollback", "ErrClosed")
              /\ store[1] = ApplyWrites(pre[1], tx.writes)
              /\ result = "nil"

C2_Witness ==
  /\ Finished("WithReadWriter")
  /\ Happened("Commit", "nil") /\ Happened("Rollback", "ErrClosed")
  /\ store[1] # pre[1]

(* C3: when NewSnapshot fails WithReader invokes no work, calls no Discard
   and returns the creation error; otherwise Discard is called exactly once,
   as the last call, after work is over (returned nil, returned an error or
   panicked), and the outcome is work's, whatever Discard returned. *)
C3_DiscardOnce ==
  /\ (op.name = "WithReader" /\ pc # "done") => Calls("Discard") = {}
  /\ Finished("WithReader") =>
       IF Happened("NewSnapshot", "ErrBackend")
         THEN /\ Calls("work") = {} /\ Calls("Get") = {}
              /\ Calls("Discard") = {}
              /\ result = "ErrBackend"
         ELSE /\ Calls("Discard") = {Len(hist)}
              /\ hist[Len(hist) - 1][1] = "work"
              /\ result = hist[Len(hist) - 1][2]
              /\ snap.state = "discarded"

C3_Witness ==
  /\ Finished("WithReader")
  /\ Happened("work", "nil") /\ Happened("Discard", "ErrBackend")
  /\ Calls("Get") # {}

(* C4: Backup of a store holding S, then Restore of the stream it wrote into
   an empty store with any maxPerTx >= 0: unless a backend call fails,
   Restore returns nil, and then the second store holds exactly S. *)
C4_RoundTrip ==
  (Finished("Restore") /\ op.db = 2) =>
    /\ result = "nil" \/ BackendFailed
    /\ result = "nil" => (store[2] = pre[1] /\ store[1] = pre[1])

C4_Witness ==
  /\ Finished("Restore") /\ op.db = 2 /\ result = "nil"
  /\ op.maxPerTx = 2
  /\ DOMAIN store[2] = Keys
  /\ \E k \in Keys : store[2][k] = <<>>

(* C5: Restore into an empty store of 3 valid records with maxPerTx = 2,
   no backend call failing: exactly 2 transactions are committed, the first
   with the first 2 records and the second with the last one, and each of
   the 3 keys is then readable, with its recorded value unless a later
   record of the stream sets the key again. *)
ThreeValidRecords ==
  /\ op.name = "Restore" /\ op.db = 1 /\ op.maxPerTx = 2
  /\ pre[1] = EmptyStore
  /\ Len(stream) = 9
  /\ Len(StreamWrites(stream, 0)) = 3
  /\ \A i \in 1..3 : StreamWrites(stream, 0)[i][2] # EmptyKey

C5_ThreeRecordsTwoChunks ==
  (ThreeValidRecords /\ pc = "done" /\ ~BackendFailed) =>
    LET w == StreamWrites(stream, 0)
    IN /\ result = "nil"
       /\ Count("Commit", "nil") = 2 /\ Cardinality(Calls("Commit")) = 2
       /\ Cardinality(Calls("NewTransaction")) = 2
       /\ chunks = << <<w[1], w[2]>>, <<w[3]>> >>
       /\ \A i \in 1..3 :
            /\ GetErr(NewSnapshot(1).view, w[i][2]) = "nil"
            /\ (\A j \in (i + 1)..3 : w[j][2] # w[i][2]) => store[1][w[i][2]] = w[i][3]

C5_Witness ==
  /\ ThreeValidRecords /\ pc = "done" /\ result = "nil"
  /\ DOMAIN store[1] = Keys

(* C6: the content a successful Restore leaves is the initial content with
   the Sets of the whole stream applied in stream order, whatever maxPerTx
   is (1, any m > 0, or 0): it does not depend on the chunk size. *)
C6_ChunkSizeIrrelevant ==
  (Finished("Restore") /\ result = "nil") =>
    store[op.db] = ApplyWrites(pre[op.db], StreamWrites(stream, 0))

C6_Witness ==
  /\ Finished("Restore") /\ result = "nil" /\ op.db = 1
  /\ op.maxPerTx = 1
  /\ LET w == StreamWrites(stream, 0)
     IN /\ Len(w) = 3
        /\ w[1][2] = w[3][2] /\ w[1][3] # w[3][3]
  /\ pre[1] # EmptyStore

(* C7: when Restore returns an error the store holds the content it had
   before overlaid with the records of the chunks whose Commit succeeded,
   in stream order (each a full chunk of maxPerTx records), and nothing of
   the chunk in progress, whose transaction, if any, is rolled back. *)
CommittedPrefix ==
  LET c == Count("Commit", "nil")
  IN IF c = 0 THEN <<>>
     ELSE SubSeq(StreamWrites(stream, 0), 1, c * EffectiveMax(op.maxPerTx))

C7_FailedRestoreKeepsChunks ==
  (Finished("Restore") /\ result # "nil") =>
    /\ store[op.db] = ApplyWrites(pre[op.db], CommittedPrefix)
    /\ \A d \in DBs \ {op.db} : store[d] = pre[d]
    /\ \/ tx.state \in {"none", "rolledback"}
       \/ tx.state = "committed" /\ hist[Len(hist)] = <<"NewTransaction", "ErrBackend">>
    /\ Len(CommittedPrefix) = Count("Commit", "nil") * op.maxPerTx

C7_Witness ==
  /\ Finished("Restore") /\ result = "ErrCommit"
  /\ Count("Commit", "nil") = 1
  /\ Len(tx.writes) = 1
  /\ store[1] # pre[1]
  /\ tx.view # store[1]

(* C8: when Clear returns nil, for every initial content and every
   maxPerTx >= 0, an Ascend over the whole key space of a new snapshot
   yields nothing. *)
C8_ClearEmpties ==
  (Finished("Clear") /\ result = "nil") =>
    NextKeys(NewSnapshot(op.db).view, EmptyKey) = {}

C8_Witness ==
  /\ Finished("Clear") /\ result = "nil"
  /\ DOMAIN pre[1] = Keys
  /\ op.maxPerTx = 2

(* C9: Clear commits no transaction in which it deleted nothing.  When it
   returns nil on a store of N keys with maxPerTx = m > 0 it has committed
   exactly ceil(N/m) transactions and opened exactly one more, the last,
   which found no key and was rolled back; on an empty store it commits
   none, whatever maxPerTx >= 0 is. *)
C9_ClearCommitCount ==
  op.name = "Clear" =>
    /\ \A i \in DOMAIN chunks : chunks[i] # <<>>
    /\ (pc = "done" /\ result = "nil") =>
         LET N == Cardinality(DOMAIN pre[1])
             m == op.maxPerTx
         IN /\ m > 0 =>
                 /\ Count("Commit", "nil") = CeilDiv(N, m)
                 /\ Cardinality(Calls("Commit")) = CeilDiv(N, m)
                 /\ Count("NewTransaction", "nil") = CeilDiv(N, m) + 1
            /\ Count("Rollback", "nil") = 1
            /\ hist[Len(hist)] = <<"Rollback", "nil">>
            /\ tx.writes = <<>> /\ tx.state = "rolledback"
            /\ N = 0 => Calls("Commit") = {}

C9_Witness ==
  /\ Finished("Clear") /\ result = "nil"
  /\ Cardinality(DOMAIN pre[1]) = 3
  /\ op.maxPerTx = 2
  /\ Count("Commit", "nil") = 2

(* C10: Restore and Clear called with a negative maxPerTx return
   os.ErrInvalid; they create no transaction, read nothing of the stream
   and leave the store as it was. *)
C10_NegativeMaxPerTx ==
  (op.name \in {"Restore", "Clear"} /\ op.maxPerTx < 0) =>
    /\ pc \in {"start", "done"}
    /\ pc = "done" => result = "ErrInvalid"
    /\ hist = <<>>
    /\ tx = NoTx
    /\ pos = 0
    /\ store = pre

C10_Witness ==
  /\ Finished("Restore") /\ op.maxPerTx < 0
  /\ Len(stream) = 9
  /\ result = "ErrInvalid"

(* The writes of a list of chunks, one after the other. *)
RECURSIVE Flatten(_)
Flatten(cs) == IF cs = <<>> THEN <<>> ELSE Head(cs) \o Flatten(Tail(cs))

(* C16: when Backup, Restore or Clear has returned, on any path, the
   transaction and the snapshot it held are closed: every snapshot created
   has had Discard called and every transaction created has had Rollback
   called (after its Commit, if any); while Restore or Clear runs at most
   one transaction is open. *)
OpenTransactions == Count("NewTransaction", "nil") - Cardinality(Calls("Rollback"))

C16_HandlesClosed ==
  op.name \in {"Backup", "Restore", "Clear"} =>
    /\ OpenTransactions = (IF tx.state = "open" THEN 1 ELSE 0)
    /\ pc = "done" =>
         /\ tx.state # "open" /\ snap.state # "open"
         /\ OpenTransactions = 0
         /\ Count("NewSnapshot", "nil") = Cardinality(Calls("Discard"))
         /\ \A i \in Calls("Commit") : hist[i + 1][1] = "Rollback"

C16_Witness ==
  /\ Finished("Restore") /\ result = "ErrChecksum"
  /\ Count("NewTransaction", "nil") = 2
  /\ Count("Rollback", "nil") = 1 /\ Count("Rollback", "ErrClosed") = 1

(* C17: the Sets Restore has made (committed chunks, then the open
   transaction) are the records of the stream in stream order, each once;
   no transaction receives more than maxPerTx Sets when maxPerTx > 0; with
   maxPerTx = 0 a successful Restore used a single transaction. *)
C17_StreamOrderBoundedChunks ==
  op.name = "Restore" =>
    LET sw == StreamWrites(stream, 0)
        applied == Flatten(chunks) \o (IF tx.state = "open" THEN tx.writes ELSE <<>>)
    IN /\ Len(applied) <= Len(sw) /\ applied = SubSeq(sw, 1, Len(applied))
       /\ op.maxPerTx > 0 =>
            /\ \A i \in DOMAIN chunks : Len(chunks[i]) <= op.maxPerTx
            /\ Len(tx.writes) <= op.maxPerTx
       /\ (pc = "done" /\ result = "nil") =>
            /\ Flatten(chunks) = sw
            /\ op.maxPerTx = 0 =>
                 /\ Len(chunks) = 1
                 /\ Cardinality(Calls("NewTransaction")) = 1

C17_Witness ==
  /\ Finished("Restore") /\ result = "nil" /\ op.maxPerTx = 0
  /\ Len(chunks) = 1 /\ Len(chunks[1]) = 3

(* C18 as stated: a successful Restore of N >= 1 valid records with
   maxPerTx = m >= 1 commits exactly ceil(N/m) transactions, each of which
   applied at least one record. *)
ValidStream == Len(stream) = 3 * Len(StreamWrites(stream, 0))

C18_CeilCommits ==
  (Finished("Restore") /\ result = "nil" /\ op.maxPerTx >= 1
     /\ ValidStream /\ Len(stream) >= 3) =>
    /\ Count("Commit", "nil") = CeilDiv(Len(StreamWrites(stream, 0)), op.maxPerTx)
    /\ \A i \in DOMAIN chunks : chunks[i] # <<>>

(* C18 amended: it commits exactly floor(N/m) + 1 transactions; all but the
   last applied m records and the last applied N mod m, which is none when
   N is a multiple of m. *)
C18_FloorPlusOneCommits ==
  (Finished("Restore") /\ result = "nil" /\ op.maxPerTx >= 1
     /\ ValidStream /\ Len(stream) >= 3) =>
    LET N == Len(StreamWrites(stream, 0))
        m == op.maxPerTx
    IN /\ Count("Commit", "nil") = (N \div m) + 1
       /\ Len(chunks) = (N \div m) + 1
       /\ \A i \in 1..(N \div m) : Len(chunks[i]) = m
       /\ Len(chunks[(N \div m) + 1]) = N % m

C18_Witness ==
  /\ Finished("Restore") /\ result = "nil" /\ op.maxPerTx = 2
  /\ Len(StreamWrites(stream, 0)) = 2
  /\ Len(chunks) = 2 /\ chunks[2] = <<>>

(* C12: ValidateBackup returns nil on the stream a successful Backup wrote.
   On a stream some record of which has a stored checksum different from
   the checksum of its key followed by its value, it returns the checksum
   error at the first such record, having read no further; it makes no
   call on any store. *)
BadAt(s, i) == s[3 * i][2] # Checksum(s[3 * i - 2][2], s[3 * i - 1][2])
WrittenByBackup == snap.state = "discarded" /\ stream = sink

C12_ValidateBackup ==
  op.name = "ValidateBackup" =>
    /\ hist = <<>> /\ store = pre /\ tx = NoTx
    /\ pc = "done" =>
         /\ WrittenByBackup => result = "nil"
         /\ \A i \in 1..(Len(stream) \div 3) :
              (BadAt(stream, i) /\ \A j \in 1..(i - 1) : ~BadAt(stream, j)) =>
                (result = "ErrChecksum" /\ pos = 3 * i)
         /\ (\A i \in 1..(Len(stream) \div 3) : ~BadAt(stream, i)) => result = "nil"

C12_Witness ==
  /\ Finished("ValidateBackup") /\ snap.state = "discarded"
  /\ Len(sink) = 9 /\ stream # sink
  /\ stream[4] # sink[4]
  /\ result = "ErrChecksum" /\ pos = 6

(* C19: a stream that ends after the key or after the value of a record,
   before its checksum, makes ValidateBackup return an error and makes
   Restore return an error without committing the chunk in progress. *)
CutInsideRecord == Len(stream) % 3 # 0

C19_CutStreamIsAnError ==
  (op.name \in {"Restore", "ValidateBackup"} /\ pc = "done" /\ CutInsideRecord) =>
    /\ result # "nil"
    /\ op.name = "Restore" =>
         (tx.state # "committed" \/ hist[Len(hist)] = <<"NewTransaction", "ErrBackend">>)

(* C15: PrefixRange(p) returns begin = p and the end of the half-open range
   that covers exactly the keys with prefix p: "" for p empty or all 0xff,
   so that PrefixRange("") = ("", ""), PrefixRange("\xff") = ("\xff", ""),
   PrefixRange("\x00\xff") = ("\x00\xff", "\x01"), and begin <= k < end
   holds exactly when k starts with p. *)
HasPrefix(k, p) == Len(k) >= Len(p) /\ SubSeq(k, 1, Len(p)) = p
InRange(k, begin, end) == ~KeyLess(k, begin) /\ (end = <<>> \/ KeyLess(k, end))
AllFF(p) == \A i \in DOMAIN p : p[i] = 255

PrefixRangeIsRight ==
  /\ pr.begin = pr.dir
  /\ AllFF(pr.dir) <=> pr.end = <<>>
  /\ pr.dir = <<0, 255>> => pr.end = <<1>>
  /\ InRange(pr.key, pr.begin, pr.end) <=> HasPrefix(pr.key, pr.dir)

C15_PrefixRangeCovers == pr.state = "returned" => PrefixRangeIsRight

(* The version of PrefixRange that calls prefixEnd does all of that. *)
PrefixEndCovers ==
  (pr.state = "returned" /\ pr.file = "prefixEnd") => PrefixRangeIsRight

(* C11: Backup opens exactly one snapshot and, when it returns nil, has
   written exactly the key/value pairs committed at the moment the snapshot
   was created, one record per key in ascending key order, whatever the
   peers commit while it iterates. *)
SnapshotTimeStore == ApplyWrites(pre[1], Flatten(SubSeq(chunks, 1, snap.since)))

SinkKey(i) == sink[3 * i - 2][2]
SinkValue(i) == sink[3 * i - 1][2]

C11_BackupPointInTime ==
  (Finished("Backup") /\ result = "nil") =>
    /\ Cardinality(Calls("NewSnapshot")) = 1
    /\ Len(sink) = 3 * Cardinality(DOMAIN SnapshotTimeStore)
    /\ \A i \in 1..(Len(sink) \div 3) :
         /\ SinkKey(i) \in DOMAIN SnapshotTimeStore
         /\ SinkValue(i) = SnapshotTimeStore[SinkKey(i)]
         /\ SubSeq(sink, 3 * i - 2, 3 * i) = BackupRecord(SinkKey(i), SinkValue(i))
         /\ \A j \in 1..(i - 1) : KeyLess(SinkKey(j), SinkKey(i))

(* Backup returned nil although, after it had taken the snapshot, peers
   deleted a key it has written and set a key to a value it has not. *)
C11_Witness ==
  /\ Finished("Backup") /\ result = "nil"
  /\ Len(chunks) > snap.since
  /\ Len(sink) = 6
  /\ SinkKey(2) \notin DOMAIN store[1]
  /\ store[1][SinkKey(1)] # SinkValue(1)

(* C13: a transaction is open, committed or rolled back, and the last two
   are absorbing.  As stated: once a Commit or Rollback of a transaction has
   succeeded, every later Commit or Rollback on it reports os.ErrClosed. *)
Outs(p) == peers[p].outs
Closed(t) == t.state \in {"committed", "rolledback"}

LaterCallsClosedOrCommittedAgain ==
  \A p \in DOMAIN peers :
    /\ \A i, j \in DOMAIN Outs(p) :
         (i < j /\ Outs(p)[i][2] = "nil") =>
           \/ Outs(p)[j][2] = "ErrClosed"
           \/ /\ Outs(p)[j] = <<"Commit", "nil">>
              /\ peers[p].t.state = "committed"
    /\ peers[p].t.state = "committed" <=>
         (\E i \in DOMAIN Outs(p) :
            /\ Outs(p)[i] = <<"Commit", "nil">>
            /\ \A j \in 1..(i - 1) : Outs(p)[j][2] # "nil")
    /\ peers[p].t.state = "rolledback" <=>
         (\E i \in DOMAIN Outs(p) : Outs(p)[i] = <<"Rollback", "nil">>)

ClosedStaysClosed ==
  \A p \in DOMAIN peers :
    Closed(peers[p].t) =>
      /\ peers'[p].t = peers[p].t
      /\ Outs(p) # peers'[p].outs => (store' = store /\ chunks' = chunks)

ReadAndWrote(p, k) ==
  k \in peers[p].t.reads /\ k \in Touched(peers[p].t.writes)
Overlapped(p, q) ==
  peers[p].t.since < peers[q].at /\ peers[q].t.since < peers[p].at

AtMostOneCommitted ==
  \A p, q \in DOMAIN peers : \A k \in PeerKeys :
    (p # q /\ ReadAndWrote(p, k) /\ ReadAndWrote(q, k)
     /\ peers[p].t.state = "committed" /\ peers[q].t.state = "committed")
      => ~Overlapped(p, q)

SecondCommitConflicts ==
  \A p, q \in DOMAIN peers : \A k \in PeerKeys :
    (/\ p # q /\ ReadAndWrote(p, k) /\ ReadAndWrote(q, k)
     /\ peers[p].t.state = "committed" /\ peers[q].t.since < peers[p].at
     /\ peers[q].t.state = "open"
     /\ Len(peers'[q].outs) > Len(Outs(q))
     /\ peers'[q].outs[Len(peers'[q].outs)][1] = "Commit")
      => /\ peers'[q].outs[Len(peers'[q].outs)][2] = "ErrConflict"
         /\ peers'[q].t.state = "open"
         /\ store' = store

ChunkEnds ==
  LET len == Len(StreamWrites(stream, 0))
  IN {e \in 0..len : e = len \/ e % EffectiveMax(op.maxPerTx) = 0}

C20_ReaderSeesWholeChunks ==
  reader.state = "open" =>
    \E e \in ChunkEnds :
      reader.view = ApplyWrites(pre[op.db], SubSeq(StreamWrites(stream, 0), 1, e))

(* The snapshot was taken between two Commits of a Restore that went on to
   return nil: it has the first chunk and not the last. *)
C20_Witness ==
  /\ Finished("Restore") /\ result = "nil" /\ op.maxPerTx = 1
  /\ reader.state = "open"
  /\ reader.since = 1
  /\ reader.view # pre[op.db]
  /\ reader.view # store[op.db]

(* C21: in Clear, with no other writer, no Delete reports a key that is not
   there; the Deletes of the committed transactions and of the one in
   progress name keys of the initial store, each at most once, and all of
   them once Clear has returned nil; no committed transaction holds more
   than maxPerTx Deletes when maxPerTx > 0. *)
ClearDeletes ==
  Flatten(chunks) \o (IF tx.state = "open" THEN tx.writes ELSE <<>>)

C21_ClearDeletesOnce ==
  op.name = "Clear" =>
    /\ Count("Delete", "ErrNotExist") = 0
    /\ \A i \in DOMAIN ClearDeletes :
         /\ ClearDeletes[i][1] = "del"
         /\ ClearDeletes[i][2] \in DOMAIN pre[op.db]
         /\ \A j \in 1..(i - 1) : ClearDeletes[j][2] # ClearDeletes[i][2]
    /\ (pc = "done" /\ result = "nil") =>
         Touched(Flatten(chunks)) = DOMAIN pre[op.db]
    /\ op.maxPerTx > 0 =>
         \A i \in DOMAIN chunks : Len(chunks[i]) <= op.maxPerTx

C21_Witness ==
  /\ Finished("Clear") /\ result = "nil"
  /\ op.maxPerTx = 1
  /\ Len(chunks) = 3
  /\ Count("Delete", "nil") = 3

(* C22: Clear terminates.  Every call returns; each Commit that succeeds
   leaves strictly fewer keys in the store; and a call with maxPerTx >= 0
   in which no backend call failed returns nil. *)
StoredKeys == Cardinality(DOMAIN store[op.db])

CommitShrinksStore ==
  chunks' # chunks => Cardinality(DOMAIN store'[op.db]) < StoredKeys

ClearReturnsNil ==
  (Finished("Clear") /\ op.maxPerTx >= 0 /\ ~BackendFailed) => result = "nil"

C22_ClearTerminates ==
  /\ <>Finished("Clear")
  /\ []ClearReturnsNil
  /\ [][CommitShrinksStore]_vars

C22_Witness ==
  /\ Finished("Clear") /\ result = "nil" /\ ~BackendFailed
  /\ op.maxPerTx = 0
  /\ Cardinality(DOMAIN pre[op.db]) = 3
  /\ Count("Commit", "nil") = 1
  /\ Count("NewTransaction", "nil") = 2

(* C23: when a NewTransaction, Set, Delete, iteration or Commit of Restore
   or Clear fails, a Commit that lost to a peer's included, the call has
   returned that error; after the failed call it has made no backend call
   but the deferred Rollback: no new transaction, no second attempt. *)
FailedCalls ==
  {i \in DOMAIN hist :
     /\ hist[i][1] \in {"NewTransaction", "Set", "Delete", "Ascend", "Commit"}
     /\ hist[i][2] # "nil"}

C23_NoRetry ==
  op.name \in {"Restore", "Clear"} =>
    \A i \in FailedCalls :
      /\ pc = "done"
      /\ result = hist[i][2]
      /\ \A j \in (i + 1)..Len(hist) : hist[j][1] = "Rollback"

(* The second chunk of the call lost its Commit to the peer's. *)
C23_Witness ==
  /\ op.name \in {"Restore", "Clear"} /\ pc = "done"
  /\ result = "ErrConflict"
  /\ Count("Commit", "nil") = 1
  /\ Count("Commit", "ErrConflict") = 1
  /\ Count("NewTransaction", "nil") = 2

(* C24: a Backup in which the iteration reported an error through its error
   slot, or which has not written a whole record for every key, has not
   returned nil; its snapshot has been discarded, once; the sink holds the
   records written before the failure, in ascending key order, followed by
   the messages of the record in progress that were encoded; and the store
   is what it was. *)
BackupFellShort ==
  \/ Happened("Ascend", "ErrIter")
  \/ Len(sink) # 3 * Cardinality(DOMAIN pre[op.db])

C24_BackupFailure ==
  Finished("Backup") =>
    /\ BackupFellShort => result # "nil"
    /\ Happened("NewSnapshot", "nil") =>
         (snap.state = "discarded" /\ Count("Discard", "nil") = 1)
    /\ Len(sink) \in (3 * n)..(3 * n + 2)
    /\ \A i \in 1..n :
         /\ SinkKey(i) \in DOMAIN pre[op.db]
         /\ SubSeq(sink, 3 * i - 2, 3 * i) = BackupRecord(SinkKey(i), pre[op.db][SinkKey(i)])
         /\ \A j \in 1..(i - 1) : KeyLess(SinkKey(j), SinkKey(i))
         /\ \A k \in DOMAIN pre[op.db] :
              KeyLess(k, SinkKey(i)) => \E j \in 1..(i - 1) : SinkKey(j) = k
    /\ Len(sink) > 3 * n =>
         \E k \in NextKeys(pre[op.db], cursor) :
           SubSeq(sink, 3 * n + 1, Len(sink)) =
             SubSeq(BackupRecord(k, pre[op.db][k]), 1, Len(sink) - 3 * n)
    /\ store = pre

(* The iterator failed after two of three keys. *)
C24_Witness ==
  /\ Finished("Backup") /\ result = "ErrIter"
  /\ Cardinality(DOMAIN pre[op.db]) = 3
  /\ n = 2 /\ Len(sink) = 6
  /\ snap.state = "discarded"

====
